---- MODULE Spec2Model ----
(***************************************************************************)
(* Model of linear_mcp/server.py: the six tools of the Linear MCP server   *)
(* (get_issue, search_issues, list_teams, update_issue_status,             *)
(* add_comment, update_issue) and the sequence of GraphQL requests each    *)
(* one hands to graphql_request.                                           *)
(*                                                                         *)
(* One action is one tool invocation (the server is synchronous: an        *)
(* invocation runs to its return or to its exception before the next one   *)
(* starts).  The remote service is the environment: what a search answers  *)
(* and which call to graphql_request raises are inputs of the invocation.  *)
(* Python's None is the empty tuple and a present value v is <<v>>.        *)
(* A workflow-state name is a tuple of one-character strings, so that      *)
(* str.lower() is computed character by character.                         *)
(***************************************************************************)
EXTENDS Integers, Sequences, FiniteSets, TLC

VARIABLES issueState, last

vars == <<issueState, last>>

\* ------------------------------------------------------------------ bounds

\* Longest page of search hits the remote service answers with.
MaxPage == 2

\* ------------------------------------------------------- Python primitives

None == <<>>

Some(v) == <<v>>

\* `if x:` for an Optional[str]: None and "" are both falsy.
Truthy(o) == o # None /\ o[1] # ""

\* `x is not None`
Supplied(o) == o # None

Min(a, b) == IF a <= b THEN a ELSE b

LowerChar(c) ==
  CASE c = "D" -> "d"
    [] c = "O" -> "o"
    [] c = "T" -> "t"
    [] c = "N" -> "n"
    [] c = "W" -> "w"
    [] c = "I" -> "i"
    [] OTHER -> c

\* str.lower()
Lower(s) == [k \in 1..Len(s) |-> LowerChar(s[k])]

\* -------------------------------------------------------- the remote data

IssueIds == {"i1", "i2"}

\* The issues of the remote workspace: identifier and owning team.
RemoteIssue ==
  [i1 |-> [identifier |-> "SRE-1", team |-> "tA"],
   i2 |-> [identifier |-> "ENG-1", team |-> "tB"]]

\* The workflow states of each team, in the order the service lists them.
\* Team tA has two states whose names differ in case only; both teams have
\* a state named "do" up to case, under different ids.
RemoteTeamStates ==
  [tA |-> << [id |-> "a1", name |-> <<"T", "o">>, type |-> "unstarted"],
             [id |-> "a2", name |-> <<"D", "o">>, type |-> "completed"],
             [id |-> "a3", name |-> <<"D", "O">>, type |-> "completed"] >>,
   tB |-> << [id |-> "b1", name |-> <<"d", "o">>, type |-> "completed"],
             [id |-> "b2", name |-> <<"W", "i">>, type |-> "started"] >>]

TeamIds == DOMAIN RemoteTeamStates

StateIdsOf(team) == {RemoteTeamStates[team][k].id : k \in 1..Len(RemoteTeamStates[team])}

StateById(team, sid) ==
  LET k == CHOOSE j \in 1..Len(RemoteTeamStates[team]) : RemoteTeamStates[team][j].id = sid
  IN RemoteTeamStates[team][k]

\* users(filter: {email: {eq: $email}}): the users with exactly that email.
RemoteUsers(email) ==
  IF email = "a@x" THEN << [id |-> "u1", name |-> "Ann", email |-> "a@x"] >>
  ELSE <<>>

\* The node the service returns for an issue (the fields the tools read).
Node(i) ==
  [id |-> i,
   identifier |-> RemoteIssue[i].identifier,
   team |-> [id |-> RemoteIssue[i].team],
   state |-> [id |-> issueState[i],
              name |-> StateById(RemoteIssue[i].team, issueState[i]).name]]

\* The rankings a search may answer with: issue ids without repetition.  The
\* service is not taken to honour `first: 1`: get_issue scans whatever list
\* it is given.
Hits ==
  {h \in UNION {[1..n -> IssueIds] : n \in 0..MaxPage} :
     \A a, b \in 1..Len(h) : a # b => h[a] # h[b]}

Page(hits) == [k \in 1..Len(hits) |-> Node(hits[k])]

\* ------------------------------------------------------------ tool inputs

Identifiers == {"SRE-1", "ENG-1", "SRE-9"}

\* The state names callers ask for.
StateNames ==
  {<<"D", "o">>, <<"d", "o">>, <<"D", "O">>, <<"T", "o">>, <<"w", "I">>, <<"N", "o">>}

Bodies == {"hello"}

\* Which call to graphql_request of an invocation raises (0: none).  No tool
\* makes more than three calls.
Faults == 0..3

\* --------------------------------------------------------- graphql_request

\* The outcome of an invocation so far: the requests handed to
\* graphql_request, whether the last of them raised, and the value returned.
Returned(log, value) == [log |-> log, raised |-> FALSE, value |-> value]

Raised(log) == [log |-> log, raised |-> TRUE, value |-> [exception |-> "request failed"]]

\* Mutant: the failure of a request is swallowed.
graphql_request_Swallow(log, req, faultAt) ==
  [log |-> Append(log, req), raised |-> FALSE]

\* graphql_request(query, variables): the request is appended to the log of
\* the invocation (the log holds what the tools hand to graphql_request,
\* whether or not it reaches the wire); it raises (missing API key, HTTP
\* status, GraphQL errors) exactly when it is the faultAt-th request.
graphql_request(log, req, faultAt) ==
  [log |-> Append(log, req), raised |-> (Len(log) + 1 = faultAt)]

\* What the service answers to issueUpdate: the issue as it is afterwards.
IssueUpdateResponse(req) ==
  LET i == req.variables.issueId
      sid == IF "stateId" \in DOMAIN req.variables
             THEN req.variables.stateId ELSE issueState[i]
  IN [success |-> TRUE,
      issue |-> [id |-> i,
                 identifier |-> RemoteIssue[i].identifier,
                 state |-> [id |-> sid,
                            name |-> StateById(RemoteIssue[i].team, sid).name]]]

CommentCreateResponse(req) ==
  [success |-> TRUE,
   comment |-> [id |-> "c1", body |-> req.variables.body]]

\* The effect of an invocation on the service: a status mutation that was
\* sent and answered moves the issue to the state it names; one whose
\* request raised (a timeout, say) was applied or not, as the service chose.
RemoteApply(out, applied) ==
  IF out.log = <<>> \/ (out.raised /\ ~applied) THEN issueState
  ELSE LET req == out.log[Len(out.log)]
       IN IF req.field = "issueUpdate" /\ "stateId" \in DOMAIN req.variables
          THEN [issueState EXCEPT ![req.variables.issueId] = req.variables.stateId]
          ELSE issueState

\* ---------------------------------------------------------------- get_issue

GetIssueRequest(identifier) ==
  [operation |-> "GetIssue", kind |-> "query", field |-> "searchIssues",
   decls |-> <<"$term: String!">>,
   args |-> <<"term: $term", "first: 1">>,
   input |-> <<>>,
   variables |-> [term |-> identifier]]

\* Mutant: the error message does not carry the identifier.
PickIssue_Anonymous(identifier, issues) ==
  IF issues = <<>>
  THEN [error |-> <<"Issue ", "", " not found">>]
  ELSE IF \E k \in 1..Len(issues) : issues[k].identifier = identifier
       THEN issues[CHOOSE k \in 1..Len(issues) :
                     /\ issues[k].identifier = identifier
                     /\ \A j \in 1..(k - 1) : issues[j].identifier # identifier]
       ELSE issues[1]

\* Mutant: the first node is returned without looking for the identifier.
PickIssue_First(identifier, issues) ==
  IF issues = <<>>
  THEN [error |-> <<"Issue ", identifier, " not found">>]
  ELSE issues[1]

\* Lines 112-122: the error when the page is empty, else the first node
\* with exactly the identifier, else the first node.
PickIssue(identifier, issues) ==
  IF issues = <<>>
  THEN [error |-> <<"Issue ", identifier, " not found">>]
  ELSE IF \E k \in 1..Len(issues) : issues[k].identifier = identifier
       THEN issues[CHOOSE k \in 1..Len(issues) :
                     /\ issues[k].identifier = identifier
                     /\ \A j \in 1..(k - 1) : issues[j].identifier # identifier]
       ELSE issues[1]

get_issue(identifier, hits, faultAt) ==
  LET r == graphql_request(<<>>, GetIssueRequest(identifier), faultAt)
  IN IF r.raised THEN Raised(r.log)
     ELSE Returned(r.log, PickIssue(identifier, Page(hits)))

\* --------------------------------------------------------------- list_teams

ListTeamsRequest ==
  [operation |-> "ListTeams", kind |-> "query", field |-> "teams",
   decls |-> <<>>, args |-> <<>>, input |-> <<>>, variables |-> None]

list_teams(faultAt) ==
  LET r == graphql_request(<<>>, ListTeamsRequest, faultAt)
  IN IF r.raised THEN Raised(r.log)
     ELSE Returned(r.log,
            [teams |-> {[id |-> t, states |-> RemoteTeamStates[t]] : t \in TeamIds}])

\* ------------------------------------------------------ update_issue_status

GetTeamStatesRequest(team_id) ==
  [operation |-> "GetTeamStates", kind |-> "query", field |-> "team",
   decls |-> <<"$teamId: String!">>,
   args |-> <<"id: $teamId">>,
   input |-> <<>>,
   variables |-> [teamId |-> team_id]]

StatusMutation(issue_id, state_id) ==
  [operation |-> "UpdateIssue", kind |-> "mutation", field |-> "issueUpdate",
   decls |-> <<"$issueId: String!", "$stateId: String!">>,
   args |-> <<"id: $issueId">>,
   input |-> <<"stateId: $stateId">>,
   variables |-> [issueId |-> issue_id, stateId |-> state_id]]

\* Mutant: the last matching state is taken (the loop does not break).
FindState_Last(states, state_name) ==
  IF \E k \in 1..Len(states) : Lower(states[k].name) = Lower(state_name)
  THEN Some(states[CHOOSE k \in 1..Len(states) :
                     /\ Lower(states[k].name) = Lower(state_name)
                     /\ \A j \in (k + 1)..Len(states) :
                          Lower(states[j].name) # Lower(state_name)])
  ELSE None

\* Mutant: the names are compared as they are, case included.
FindState_Exact(states, state_name) ==
  IF \E k \in 1..Len(states) : states[k].name = state_name
  THEN Some(states[CHOOSE k \in 1..Len(states) :
                     /\ states[k].name = state_name
                     /\ \A j \in 1..(k - 1) : states[j].name # state_name])
  ELSE None

\* Lines 289-293: the first state whose lowered name is the lowered target.
FindState(states, state_name) ==
  IF \E k \in 1..Len(states) : Lower(states[k].name) = Lower(state_name)
  THEN Some(states[CHOOSE k \in 1..Len(states) :
                     /\ Lower(states[k].name) = Lower(state_name)
                     /\ \A j \in 1..(k - 1) :
                          Lower(states[j].name) # Lower(state_name)])
  ELSE None

\* Mutant: the names are listed lowered.
Available_Lowered(states) == [k \in 1..Len(states) |-> Lower(states[k].name)]

\* Line 296
Available(states) == [k \in 1..Len(states) |-> states[k].name]

StateNotFound(state_name, states) ==
  [error |-> <<"State '", state_name, "' not found. Available states: ",
               Available(states)>>]

update_issue_status(identifier, state_name, hits, faultAt) ==
  LET r1 == get_issue(identifier, hits, faultAt)
  IN IF r1.raised \/ "error" \in DOMAIN r1.value THEN r1
     ELSE
       LET issue_id == r1.value.id
           team_id == r1.value.team.id
           r2 == graphql_request(r1.log, GetTeamStatesRequest(team_id), faultAt)
       IN IF r2.raised THEN Raised(r2.log)
          ELSE
            LET states == RemoteTeamStates[team_id]
                target_state == FindState(states, state_name)
            IN IF target_state = None
               THEN Returned(r2.log, StateNotFound(state_name, states))
               ELSE
                 LET req == StatusMutation(issue_id, target_state[1].id)
                     r3 == graphql_request(r2.log, req, faultAt)
                 IN IF r3.raised THEN Raised(r3.log)
                    ELSE Returned(r3.log, IssueUpdateResponse(req))

\* -------------------------------------------------------------- add_comment

CommentMutation(issue_id, body) ==
  [operation |-> "CreateComment", kind |-> "mutation", field |-> "commentCreate",
   decls |-> <<"$issueId: String!", "$body: String!">>,
   args |-> <<>>,
   input |-> <<"issueId: $issueId", "body: $body">>,
   variables |-> [issueId |-> issue_id, body |-> body]]

add_comment(identifier, body, hits, faultAt) ==
  LET r1 == get_issue(identifier, hits, faultAt)
  IN IF r1.raised \/ "error" \in DOMAIN r1.value THEN r1
     ELSE
       LET req == CommentMutation(r1.value.id, body)
           r2 == graphql_request(r1.log, req, faultAt)
       IN IF r2.raised THEN Raised(r2.log)
          ELSE Returned(r2.log, CommentCreateResponse(req))

\* ------------------------------------------------------------- update_issue

Titles == {None, Some(""), Some("x")}

Descriptions == {None, Some("")}

Priorities == {None, Some(0)}

Emails == {None, Some("a@x"), Some("zz@x")}

\* variables[k] = v
Put(d, k, v) == [x \in DOMAIN d \cup {k} |-> IF x = k THEN v ELSE d[x]]

FindUserRequest(email) ==
  [operation |-> "FindUser", kind |-> "query", field |-> "users",
   decls |-> <<"$email: String!">>,
   args |-> <<"filter: { email: { eq: $email } }">>,
   input |-> <<>>,
   variables |-> [email |-> email]]

\* Mutant: `if title:` in place of `if title is not None:`.
ScalarFields_Truthy(title, description, priority) ==
  (IF Truthy(title) THEN <<"title: $title">> ELSE <<>>)
    \o (IF Truthy(description) THEN <<"description: $description">> ELSE <<>>)
    \o (IF priority # None /\ priority[1] # 0 THEN <<"priority: $priority">> ELSE <<>>)

\* Lines 387-398: the input fields and bindings of title, description and
\* priority, each added when the argument is not None.
ScalarFields(title, description, priority) ==
  (IF Supplied(title) THEN <<"title: $title">> ELSE <<>>)
    \o (IF Supplied(description) THEN <<"description: $description">> ELSE <<>>)
    \o (IF Supplied(priority) THEN <<"priority: $priority">> ELSE <<>>)

ScalarVariables(issue_id, title, description, priority) ==
  LET v0 == [issueId |-> issue_id]
      v1 == IF Supplied(title) THEN Put(v0, "title", title[1]) ELSE v0
      v2 == IF Supplied(description) THEN Put(v1, "description", description[1]) ELSE v1
  IN IF Supplied(priority) THEN Put(v2, "priority", priority[1]) ELSE v2

\* Lines 425-433: one declaration per key bound in variables.
VarDecls(variables) ==
  <<"$issueId: String!">>
    \o (IF "title" \in DOMAIN variables THEN <<"$title: String!">> ELSE <<>>)
    \o (IF "description" \in DOMAIN variables THEN <<"$description: String!">> ELSE <<>>)
    \o (IF "priority" \in DOMAIN variables THEN <<"$priority: Int!">> ELSE <<>>)
    \o (IF "assigneeId" \in DOMAIN variables THEN <<"$assigneeId: String">> ELSE <<>>)

\* Lines 435-457
FieldsMutation(input_fields, variables) ==
  [operation |-> "UpdateIssue", kind |-> "mutation", field |-> "issueUpdate",
   decls |-> VarDecls(variables),
   args |-> <<"id: $issueId">>,
   input |-> input_fields,
   variables |-> variables]

NoFields ==
  [error |-> <<"No fields to update. Provide at least one of: title, description, priority, assignee_email">>]

UserNotFound(email) ==
  [error |-> <<"User with email '", email, "' not found">>]

\* Mutant: the check for an empty input is missing.
Compose_NoCheck(log, input_fields, variables, faultAt) ==
  LET req == FieldsMutation(input_fields, variables)
      r == graphql_request(log, req, faultAt)
  IN IF r.raised THEN Raised(r.log)
     ELSE Returned(r.log, IssueUpdateResponse(req))

\* Lines 421-458: what follows the assignee lookup.
Compose(log, input_fields, variables, faultAt) ==
  IF input_fields = <<>> THEN Returned(log, NoFields)
  ELSE LET req == FieldsMutation(input_fields, variables)
           r == graphql_request(log, req, faultAt)
       IN IF r.raised THEN Raised(r.log)
          ELSE Returned(r.log, IssueUpdateResponse(req))

update_issue(identifier, title, description, priority, assignee_email, hits, faultAt) ==
  LET r1 == get_issue(identifier, hits, faultAt)
  IN IF r1.raised \/ "error" \in DOMAIN r1.value THEN r1
     ELSE
       LET issue_id == r1.value.id
           fields == ScalarFields(title, description, priority)
           variables == ScalarVariables(issue_id, title, description, priority)
       IN IF Supplied(assignee_email)
          THEN
            LET r2 == graphql_request(r1.log, FindUserRequest(assignee_email[1]), faultAt)
                users == RemoteUsers(assignee_email[1])
            IN IF r2.raised THEN Raised(r2.log)
               ELSE IF users = <<>>
                    THEN Returned(r2.log, UserNotFound(assignee_email[1]))
                    ELSE Compose(r2.log,
                                 Append(fields, "assigneeId: $assigneeId"),
                                 Put(variables, "assigneeId", users[1].id),
                                 faultAt)
          ELSE Compose(r1.log, fields, variables, faultAt)

\* ------------------------------------------------------------ search_issues

Queries == {None, Some(""), Some("bug")}

TeamKeys == {None, Some(""), Some("SRE")}

FilterStates == {None, Some(""), Some("Done")}

FilterEmails == {None, Some(""), Some("a@x")}

Limits == {-1, 1, 20, 50, 51, 100}

\* Mutant: `is not None` in place of the truth value.
Filters_NotNone(team_key, state_name, assignee_email) ==
  (IF Supplied(team_key)
     THEN << <<"team: { key: { eq: ", team_key[1], " } }">> >> ELSE <<>>)
    \o (IF Supplied(state_name)
          THEN << <<"state: { name: { eqIgnoreCase: ", state_name[1], " } }">> >> ELSE <<>>)
    \o (IF Supplied(assignee_email)
          THEN << <<"assignee: { email: { eq: ", assignee_email[1], " } }">> >> ELSE <<>>)

\* Lines 147-153: one predicate per truthy criterion.
Filters(team_key, state_name, assignee_email) ==
  (IF Truthy(team_key)
     THEN << <<"team: { key: { eq: ", team_key[1], " } }">> >> ELSE <<>>)
    \o (IF Truthy(state_name)
          THEN << <<"state: { name: { eqIgnoreCase: ", state_name[1], " } }">> >> ELSE <<>>)
    \o (IF Truthy(assignee_email)
          THEN << <<"assignee: { email: { eq: ", assignee_email[1], " } }">> >> ELSE <<>>)

\* Line 156: None stands for the empty clause.
FilterClause(filters) == IF filters # <<>> THEN Some(<<"filter: { ", filters, " }">>) ELSE None

\* The cap of lines 185 and 215.
PageCap == 50

\* Mutant: the limit is passed on as given.
PageSize_Uncapped(limit) == limit

\* Lines 185 and 215
PageSize(limit) == Min(limit, PageCap)

SearchRequest(term, limit) ==
  [operation |-> "SearchIssues", kind |-> "query", field |-> "searchIssues",
   decls |-> <<"$term: String!", "$limit: Int!">>,
   args |-> <<"term: $term", "first: $limit">>,
   input |-> <<>>,
   filter |-> None,
   variables |-> [term |-> term, limit |-> PageSize(limit)]]

ListRequest(filter_clause, limit) ==
  [operation |-> "ListIssues", kind |-> "query", field |-> "issues",
   decls |-> <<"$limit: Int!">>,
   args |-> <<"first: $limit">>,
   input |-> <<>>,
   filter |-> filter_clause,
   variables |-> [limit |-> PageSize(limit)]]

\* Line 159: `if query:`
UseSearch(query) == Truthy(query)

search_issues(query, team_key, state_name, assignee_email, limit, hits, faultAt) ==
  LET filter_clause == FilterClause(Filters(team_key, state_name, assignee_email))
      req == IF UseSearch(query) THEN SearchRequest(query[1], limit)
             ELSE ListRequest(filter_clause, limit)
      r == graphql_request(<<>>, req, faultAt)
  IN IF r.raised THEN Raised(r.log)
     ELSE Returned(r.log, [issues |-> Page(hits)])

\* ------------------------------------------------------------ the machine

\* `last` is the invocation being served: the tool, its arguments, what the
\* service was set to answer (hits, faultAt), the issues' states when the
\* call was made (pre) and the outcome; turn tells an invocation from the
\* one before it.
Idle ==
  [op |-> "none", args |-> <<>>, hits |-> <<>>, faultAt |-> 0, pre |-> <<>>,
   turn |-> 0, out |-> Returned(<<>>, [idle |-> TRUE])]

Init ==
  /\ issueState \in {f \in [IssueIds -> UNION {StateIdsOf(t) : t \in TeamIds}] :
                       \A i \in IssueIds : f[i] \in StateIdsOf(RemoteIssue[i].team)}
  /\ last = Idle

Invoke(op, args, hits, faultAt, applied, out) ==
  /\ last' = [op |-> op, args |-> args, hits |-> hits, faultAt |-> faultAt,
              pre |-> issueState, turn |-> 1 - last.turn, out |-> out]
  /\ issueState' = RemoteApply(out, applied)

GetIssue ==
  \E identifier \in Identifiers, hits \in Hits, faultAt \in Faults :
    Invoke("get_issue", [identifier |-> identifier], hits, faultAt, FALSE,
           get_issue(identifier, hits, faultAt))

ListTeams ==
  \E faultAt \in Faults :
    Invoke("list_teams", <<>>, <<>>, faultAt, FALSE, list_teams(faultAt))

UpdateIssueStatus ==
  \E identifier \in Identifiers, state_name \in StateNames, hits \in Hits,
     faultAt \in Faults, applied \in BOOLEAN :
    Invoke("update_issue_status",
           [identifier |-> identifier, state_name |-> state_name], hits, faultAt, applied,
           update_issue_status(identifier, state_name, hits, faultAt))

AddComment ==
  \E identifier \in Identifiers, body \in Bodies, hits \in Hits, faultAt \in Faults :
    Invoke("add_comment", [identifier |-> identifier, body |-> body], hits, faultAt, FALSE,
           add_comment(identifier, body, hits, faultAt))

UpdateIssue ==
  \E identifier \in Identifiers, title \in Titles, description \in Descriptions,
     priority \in Priorities, assignee_email \in Emails, hits \in Hits, faultAt \in Faults :
    Invoke("update_issue",
           [identifier |-> identifier, title |-> title, description |-> description,
            priority |-> priority, assignee_email |-> assignee_email], hits, faultAt, FALSE,
           update_issue(identifier, title, description, priority, assignee_email,
                        hits, faultAt))

SearchIssues ==
  \E query \in Queries, team_key \in TeamKeys, state_name \in FilterStates,
     assignee_email \in FilterEmails, limit \in Limits, hits \in Hits, faultAt \in Faults :
    Invoke("search_issues",
           [query |-> query, team_key |-> team_key, state_name |-> state_name,
            assignee_email |-> assignee_email, limit |-> limit], hits, faultAt, FALSE,
           search_issues(query, team_key, state_name, assignee_email, limit,
                         hits, faultAt))

\* mcp.run(): the outcome is handed to the caller and the server waits for
\* the next call.
Deliver ==
  /\ last # Idle
  /\ last' = Idle
  /\ UNCHANGED issueState

\* The server takes one call at a time.
Ready == last = Idle

Next ==
  \/ Ready /\ GetIssue
  \/ Ready /\ SearchIssues
  \/ Ready /\ ListTeams
  \/ Ready /\ UpdateIssueStatus
  \/ Ready /\ AddComment
  \/ Ready /\ UpdateIssue
  \/ Deliver

Spec == Init /\ [][Next]_vars

\* Status updates one after the other, the earlier outcome still in `last`
\* when the later call is made.
NextStatus == UpdateIssueStatus

SpecStatus == Init /\ [][NextStatus]_vars

\* ---------------------------------------------------------------- claims

Log == last.out.log

Out == last.out

Mutating == last.op \in {"update_issue_status", "add_comment", "update_issue"}

NoMutationIn(log) == \A k \in 1..Len(log) : log[k].kind # "mutation"

IssueNotFound(identifier) == [error |-> <<"Issue ", identifier, " not found">>]

\* The issue an identifier stands for, given the hits of the lookup: the
\* first hit with exactly that identifier, else the first hit.
Resolved(identifier, hits) ==
  LET exact == {k \in 1..Len(hits) : RemoteIssue[hits[k]].identifier = identifier}
  IN IF exact = {} THEN hits[1]
     ELSE hits[CHOOSE k \in exact : \A j \in exact : k <= j]

\* Some state of the team has the name, letter case ignored.
NameResolves(team, name) ==
  \E k \in 1..Len(RemoteTeamStates[team]) :
    Lower(RemoteTeamStates[team][k].name) = Lower(name)

\* C1: in update_issue_status, add_comment and update_issue a mutation is
\* sent only as the last request, after a non-empty issue lookup, after the
\* state name or the assignee email resolved and after no earlier request
\* raised; an empty lookup returns "Issue <identifier> not found", an
\* unresolved state name or email returns an error payload, a raising
\* request makes the operation raise, and in each of these cases that
\* request is the last one of the invocation and no mutation is sent.
C1_MutationOnlyAfterResolution ==
  Mutating =>
    /\ \A k \in 1..Len(Log) :
         Log[k].kind = "mutation" =>
           /\ k = Len(Log)
           /\ last.hits # <<>>
           /\ last.faultAt \notin 1..(k - 1)
           /\ last.op = "update_issue_status" =>
                /\ k = 3
                /\ Log[2].operation = "GetTeamStates"
                /\ NameResolves(Log[2].variables.teamId, last.args.state_name)
           /\ (last.op = "update_issue" /\ Supplied(last.args.assignee_email)) =>
                /\ k = 3
                /\ Log[2].operation = "FindUser"
                /\ RemoteUsers(last.args.assignee_email[1]) # <<>>
    /\ last.faultAt \in 1..Len(Log) => Out.raised /\ Len(Log) = last.faultAt
    /\ Out.raised => Len(Log) = last.faultAt /\ NoMutationIn(SubSeq(Log, 1, Len(Log) - 1))
    /\ (last.hits = <<>> /\ last.faultAt # 1) =>
         /\ Out.value = IssueNotFound(last.args.identifier)
         /\ Len(Log) = 1
         /\ NoMutationIn(Log)
    /\ (/\ last.op = "update_issue_status"
        /\ last.hits # <<>>
        /\ last.faultAt \notin 1..2
        /\ ~NameResolves(Log[2].variables.teamId, last.args.state_name)) =>
         /\ "error" \in DOMAIN Out.value
         /\ Len(Log) = 2
         /\ NoMutationIn(Log)
    /\ (/\ last.op = "update_issue"
        /\ last.hits # <<>>
        /\ last.faultAt \notin 1..2
        /\ Supplied(last.args.assignee_email)
        /\ RemoteUsers(last.args.assignee_email[1]) = <<>>) =>
         /\ "error" \in DOMAIN Out.value
         /\ Len(Log) = 2
         /\ NoMutationIn(Log)

\* add_comment("SRE-9", "hello") on an empty lookup: the error, one request.
C1_Witness ==
  /\ last.op = "add_comment"
  /\ last.args.identifier = "SRE-9"
  /\ last.hits = <<>>
  /\ Out.value = IssueNotFound("SRE-9")
  /\ Len(Log) = 1

\* C2: when update_issue_status has resolved the issue and fetched the
\* states of its team, and the requested name matches none of them (case
\* ignored), it returns an error payload whose list of available states is
\* the names of that team's states, all of them and nothing else, and sends
\* no status mutation.
C2_StateNotFoundListsTeamStates ==
  (/\ last.op = "update_issue_status"
   /\ ~Out.raised
   /\ last.hits # <<>>
   /\ ~NameResolves(RemoteIssue[Resolved(last.args.identifier, last.hits)].team,
                    last.args.state_name)) =>
    LET team == RemoteIssue[Resolved(last.args.identifier, last.hits)].team
        states == RemoteTeamStates[team]
    IN /\ DOMAIN Out.value = {"error"}
       /\ Out.value.error[2] = last.args.state_name
       /\ Len(Out.value.error[4]) = Len(states)
       /\ \A k \in 1..Len(states) : Out.value.error[4][k] = states[k].name
       /\ Log[2].variables.teamId = team
       /\ NoMutationIn(Log)
       /\ issueState = last.pre

\* "No" asked of an issue of team tA: the error lists To, Do, DO.
C2_Witness ==
  /\ last.op = "update_issue_status"
  /\ last.args.state_name = <<"N", "o">>
  /\ last.hits = <<"i1">>
  /\ ~Out.raised
  /\ "error" \in DOMAIN Out.value
  /\ Out.value.error[4] = << <<"T", "o">>, <<"D", "o">>, <<"D", "O">> >>

\* The optional fields of update_issue the caller supplied (not None).
FieldNames == {"title", "description", "priority", "assignee_email"}

SuppliedFields(args) == {f \in FieldNames : Supplied(args[f])}

DeclOf(f) ==
  CASE f = "title" -> "$title: String!"
    [] f = "description" -> "$description: String!"
    [] f = "priority" -> "$priority: Int!"
    [] f = "assignee_email" -> "$assigneeId: String"

InputOf(f) ==
  CASE f = "title" -> "title: $title"
    [] f = "description" -> "description: $description"
    [] f = "priority" -> "priority: $priority"
    [] f = "assignee_email" -> "assigneeId: $assigneeId"

KeyOf(f) == IF f = "assignee_email" THEN "assigneeId" ELSE f

Range(seq) == {seq[k] : k \in 1..Len(seq)}

\* C3: the mutation update_issue sends declares $issueId and one variable
\* per supplied field, assigns one input field per supplied field and binds
\* issueId and one key per supplied field, nothing else and nothing twice
\* (supplied is "not None": "" and 0 count); and it is sent whenever a field
\* is supplied, the issue and the assignee resolve and no request raises.
C3_SparseMutation ==
  last.op = "update_issue" =>
    LET F == SuppliedFields(last.args)
    IN /\ \A k \in 1..Len(Log) :
            Log[k].kind = "mutation" =>
              /\ Range(Log[k].decls) = {"$issueId: String!"} \cup {DeclOf(f) : f \in F}
              /\ Len(Log[k].decls) = 1 + Cardinality(F)
              /\ Range(Log[k].input) = {InputOf(f) : f \in F}
              /\ Len(Log[k].input) = Cardinality(F)
              /\ DOMAIN Log[k].variables = {"issueId"} \cup {KeyOf(f) : f \in F}
       /\ (/\ F # {}
           /\ last.faultAt = 0
           /\ last.hits # <<>>
           /\ Supplied(last.args.assignee_email) =>
                RemoteUsers(last.args.assignee_email[1]) # <<>>) =>
            /\ Len(Log) >= 2
            /\ Log[Len(Log)].kind = "mutation"

\* update_issue(title="", priority=0): both are in the mutation, alone.
C3_Witness ==
  /\ last.op = "update_issue"
  /\ last.args.title = Some("")
  /\ last.args.description = None
  /\ last.args.priority = Some(0)
  /\ last.args.assignee_email = None
  /\ Len(Log) = 2
  /\ Log[2].kind = "mutation"
  /\ Log[2].input = <<"title: $title", "priority: $priority">>
  /\ DOMAIN Log[2].variables = {"issueId", "title", "priority"}

NothingSupplied == last.op = "update_issue" /\ SuppliedFields(last.args) = {}

\* C4, as claimed: update_issue with no field supplied sends no request at
\* all, not even the issue lookup.
C4_NoRequestAtAll == NothingSupplied => Log = <<>>

\* C4, amended: update_issue with no field supplied sends exactly one
\* request, the issue lookup, and the "No fields to update" error is
\* returned only after that lookup was sent and answered with a hit; no user
\* lookup and no mutation is sent.
C4_LookupThenNoFields ==
  NothingSupplied =>
    /\ Log = <<GetIssueRequest(last.args.identifier)>>
    /\ Out.value = NoFields => (last.faultAt # 1 /\ last.hits # <<>>)

C4_Witness ==
  /\ NothingSupplied
  /\ Out.value = NoFields
  /\ Len(Log) = 1
  /\ Log[1].operation = "GetIssue"

NoFieldsPayload ==
  [error |-> <<"No fields to update. Provide at least one of: title, description, priority, assignee_email">>]

\* C5, as claimed: with no field supplied update_issue returns the "No
\* fields to update" payload whatever the lookup returns, with the lookup
\* as the only request.
C5_AlwaysNoFields ==
  (NothingSupplied /\ ~Out.raised) =>
    /\ Out.value = NoFieldsPayload
    /\ Len(Log) = 1
    /\ NoMutationIn(Log)

\* C5, amended: with no field supplied update_issue sends the issue lookup
\* and nothing else, and returns the "No fields to update" payload when the
\* lookup returns a hit, "Issue <identifier> not found" when it returns
\* none, and raises when the lookup raises.
C5_NoFieldsAfterLookup ==
  NothingSupplied =>
    /\ Len(Log) = 1
    /\ NoMutationIn(Log)
    /\ issueState = last.pre
    /\ Out.raised <=> last.faultAt = 1
    /\ (~Out.raised /\ last.hits # <<>>) => Out.value = NoFieldsPayload
    /\ (~Out.raised /\ last.hits = <<>>) => Out.value = IssueNotFound(last.args.identifier)

C5_Witness ==
  /\ NothingSupplied
  /\ last.hits = <<>>
  /\ Out.value = IssueNotFound(last.args.identifier)

\* C6: get_issue(I) returns "Issue I not found" exactly when the page is
\* empty; otherwise the first node of the page whose identifier is I, and
\* the first node of the page when no node has it.
C6_GetIssueResult ==
  (last.op = "get_issue" /\ ~Out.raised) =>
    LET I == last.args.identifier
        exact == {k \in 1..Len(last.hits) : RemoteIssue[last.hits[k]].identifier = I}
    IN /\ (Out.value = IssueNotFound(I)) <=> (last.hits = <<>>)
       /\ ("error" \in DOMAIN Out.value) <=> (last.hits = <<>>)
       /\ last.hits # <<>> =>
            /\ \E k \in 1..Len(last.hits) : Out.value = Node(last.hits[k])
            /\ exact # {} =>
                 \E k \in exact :
                   /\ Out.value = Node(last.hits[k])
                   /\ \A j \in exact : k <= j
            /\ exact = {} => Out.value = Node(last.hits[1])

\* "SRE-1" looked up, the page is <<ENG-1, SRE-1>>: the second node is returned.
C6_Witness ==
  /\ last.op = "get_issue"
  /\ last.args.identifier = "SRE-1"
  /\ last.hits = <<"i2", "i1">>
  /\ ~Out.raised
  /\ Out.value.id = "i1"

\* An update_issue_status invocation that sent its status mutation.
SentStatus(r) ==
  /\ r.op = "update_issue_status"
  /\ Len(r.out.log) = 3
  /\ r.out.log[3].kind = "mutation"

\* The id of the first state of the team with the name, case ignored.
FirstMatchId(team, name) ==
  LET S == RemoteTeamStates[team]
      M == {k \in 1..Len(S) : Lower(S[k].name) = Lower(name)}
  IN S[CHOOSE k \in M : \A j \in M : k <= j].id

\* C7: the stateId of a status mutation is the id of the first state, among
\* the states of the team of the issue resolved in that invocation, whose
\* name is the requested one up to letter case, so never a state of another
\* team; and two invocations on the same issue whose state names differ in
\* letter case only carry the same stateId.
C7_StateOfIssueTeam ==
  [][/\ SentStatus(last') =>
          LET m == last'.out.log[3]
              i == Resolved(last'.args.identifier, last'.hits)
              team == RemoteIssue[i].team
          IN /\ m.variables.issueId = i
             /\ last'.out.log[2].variables.teamId = team
             /\ NameResolves(team, last'.args.state_name)
             /\ m.variables.stateId = FirstMatchId(team, last'.args.state_name)
             /\ m.variables.stateId \in StateIdsOf(team)
             /\ \A t \in TeamIds \ {team} : m.variables.stateId \notin StateIdsOf(t)
     /\ (/\ SentStatus(last)
         /\ SentStatus(last')
         /\ last.out.log[3].variables.issueId = last'.out.log[3].variables.issueId
         /\ Lower(last.args.state_name) = Lower(last'.args.state_name)) =>
          last.out.log[3].variables.stateId = last'.out.log[3].variables.stateId
    ]_vars

\* "do" asked of an issue of team tA: the mutation carries a2 (tA's "Do"),
\* not b1 (tB's "do").
C7_Witness ==
  /\ SentStatus(last)
  /\ last.args.state_name = <<"d", "o">>
  /\ last.hits = <<"i1">>
  /\ Log[3].variables.stateId = "a2"

\* An update_issue_status invocation in which no request raises, the
\* lookup has a hit and the name is one of the states of the issue's team.
CleanStatus(r) ==
  /\ r.op = "update_issue_status"
  /\ r.faultAt = 0
  /\ r.hits # <<>>
  /\ NameResolves(RemoteIssue[Resolved(r.args.identifier, r.hits)].team, r.args.state_name)

Succeeded(r) ==
  /\ ~r.out.raised
  /\ "error" \notin DOMAIN r.out.value
  /\ r.out.value.success

\* The issue is in a state whose name is the given one up to letter case.
InStateNamed(st, i, name) ==
  Lower(StateById(RemoteIssue[i].team, st[i]).name) = Lower(name)

\* C8: update_issue_status(I, S) made twice in a row, with the same lookup
\* answer and S a state of the issue's team: both calls succeed, the issue
\* is in state S after the first and after the second, and the second call
\* leaves the issue's state as the first one set it.
C8_StatusIdempotent ==
  [][(/\ CleanStatus(last)
      /\ CleanStatus(last')
      /\ last'.args = last.args
      /\ last'.hits = last.hits) =>
       LET i == Resolved(last.args.identifier, last.hits)
       IN /\ Succeeded(last)
          /\ Succeeded(last')
          /\ InStateNamed(issueState, i, last.args.state_name)
          /\ InStateNamed(issueState', i, last.args.state_name)
          /\ issueState' = issueState
          /\ last'.out.value = last.out.value
    ]_vars

\* A call that found the issue already in the state it asked for, and
\* succeeded.
C8_Witness ==
  /\ CleanStatus(last)
  /\ Succeeded(last)
  /\ last.args.state_name = <<"D", "o">>
  /\ last.hits = <<"i1">>
  /\ last.pre["i1"] = "a2"
  /\ issueState["i1"] = "a2"

\* C9: in both branches of search_issues the one request binds
\* min(limit, 50) to the variable $limit that is the page size (first:),
\* never more than 50.
C9_PageSizeCapped ==
  last.op = "search_issues" =>
    /\ Len(Log) = 1
    /\ Log[1].operation \in {"SearchIssues", "ListIssues"}
    /\ \E k \in 1..Len(Log[1].args) : Log[1].args[k] = "first: $limit"
    /\ Log[1].variables.limit = (IF last.args.limit <= 50 THEN last.args.limit ELSE 50)
    /\ Log[1].variables.limit <= 50

\* search_issues(team_key="SRE", limit=100) lists with page size 50.
C9_Witness ==
  /\ last.op = "search_issues"
  /\ last.args.query = None
  /\ last.args.team_key = Some("SRE")
  /\ last.args.limit = 100
  /\ Log[1].operation = "ListIssues"
  /\ Log[1].variables.limit = 50

\* A criterion counts when it is not None (byPresence) or when it is a
\* non-empty string.  The predicates a listing must carry: team key equality, state name equality ignoring case, assignee
\* email equality, in this order.
Given(o, byPresence) == IF byPresence THEN Supplied(o) ELSE Truthy(o)

ExpectedPredicates(args, byPresence) ==
  (IF Given(args.team_key, byPresence)
     THEN << <<"team: { key: { eq: ", args.team_key[1], " } }">> >> ELSE <<>>)
    \o (IF Given(args.state_name, byPresence)
          THEN << <<"state: { name: { eqIgnoreCase: ", args.state_name[1], " } }">> >>
          ELSE <<>>)
    \o (IF Given(args.assignee_email, byPresence)
          THEN << <<"assignee: { email: { eq: ", args.assignee_email[1], " } }">> >>
          ELSE <<>>)

\* search_issues sends a full-text search of the term and the page size
\* alone when query counts, and otherwise a listing with one predicate per
\* criterion that counts and no filter when there is none.
SearchShape(byPresence) ==
  last.op = "search_issues" =>
    /\ Len(Log) = 1
    /\ Given(last.args.query, byPresence) =>
         /\ Log[1].operation = "SearchIssues"
         /\ Log[1].field = "searchIssues"
         /\ Log[1].filter = None
         /\ DOMAIN Log[1].variables = {"term", "limit"}
         /\ Log[1].variables.term = last.args.query[1]
         /\ Log[1].decls = <<"$term: String!", "$limit: Int!">>
         /\ Log[1].args = <<"term: $term", "first: $limit">>
    /\ ~Given(last.args.query, byPresence) =>
         LET expected == ExpectedPredicates(last.args, byPresence)
         IN /\ Log[1].operation = "ListIssues"
            /\ Log[1].field = "issues"
            /\ DOMAIN Log[1].variables = {"limit"}
            /\ expected = <<>> => Log[1].filter = None
            /\ expected # <<>> =>
                 /\ Log[1].filter # None
                 /\ Log[1].filter[1][2] = expected

\* C10, as claimed: the choice is by the presence of query, and a criterion
\* counts when it is supplied (not None).
C10_ByPresence == SearchShape(TRUE)

\* C10, amended: the choice is by the truth value of query, and a criterion
\* counts when it is a non-empty string: an empty query lists, and an empty
\* team_key, state_name or assignee_email adds no predicate.
C10_ByTruthiness == SearchShape(FALSE)

\* query="bug" with team_key="SRE": a search that carries no filter.
C10_Witness ==
  /\ last.op = "search_issues"
  /\ last.args.query = Some("bug")
  /\ last.args.team_key = Some("SRE")
  /\ Log[1].operation = "SearchIssues"
  /\ Log[1].filter = None

====
